---- MODULE Spec2Model ----
(***************************************************************************)
(* Model of RlSmartGrid's node-mapping session (main.py), the mapping step *)
(* (node_policy_net.py: map_virtual_node) and the substrate feature        *)
(* extraction (featureExtraction/node_feature_ext.py).                     *)
(*                                                                         *)
(* Python lists are modelled as TLA+ sequences; a Python index i is the    *)
(* sequence position i + 1.  Floats are modelled as exact rationals:       *)
(* probabilities are integers counted in units of 1/One, averages are      *)
(* reduced fractions <<numerator, denominator>>.                           *)
(***************************************************************************)
EXTENDS Integers, Sequences, FiniteSets, TLC

VARIABLES
    physical_nodes,          \* main.py:11   list of nodes, each with cpu_capacity
    physical_links,          \* main.py:11   list of links (source, target, bandwidth)
    request,                 \* main.py:14   virtual_network_request['virtual_nodes']
    policy,                  \* main.py:40   which policy is plugged in as policy_net
    node_features,           \* main.py:48   the feature dictionaries
    mapped_nodes,            \* main.py:47   physical indices chosen so far
    mapping_results,         \* main.py:36   committed mappings, in commit order
    failed_log,              \* main.py:90   names printed as "Failed to map"
    unmapped_virtual_nodes,  \* main.py:100  set computed after the loop
    vidx,                    \* main.py:58   position of the for loop (1-based)
    pc,                      \* "start" | "map" | "done" | "crashed"
    exc,                     \* exception raised by the last call ("none" if none)
    probabilities,           \* node_policy_net.py:85   the policy's last output
    eligible_nodes,          \* node_policy_net.py:93   last call's eligible indices
    eligible_probs,          \* node_policy_net.py:94   last call's eligible scores
    selected_node_idx,       \* main.py:67   last selected index (-1 if none)
    prev_capacity,           \* history: cpu capacities when the last call started
    initial_capacity,        \* history: cpu capacities as loaded (main.py:11)
    adjacency,               \* node_feature_ext.py:181 adjacency list
    distance                 \* node_feature_ext.py:101 BFS distance array of every k

vars == <<physical_nodes, physical_links, request, policy, node_features,
          mapped_nodes, mapping_results, failed_log, unmapped_virtual_nodes,
          vidx, pc, exc, probabilities, eligible_nodes, eligible_probs,
          selected_node_idx, prev_capacity, initial_capacity, adjacency,
          distance>>

(***************************************************************************)
(* Bounds of the model.                                                    *)
(***************************************************************************)
\* number of physical nodes N of a substrate handed to the feature extraction
NumNodes == 3
\* largest number of physical nodes of a substrate a session runs on
MaxSessionNodes == 2
\* longest virtual network request
MaxVirtualNodes == 3
\* longest link list
MaxLinks == 3
\* longest mapped_nodes list handed to the feature extraction on its own
MaxMapped == 2
\* the number of probability units that make 1.0
One == 2

\* cpu_capacity is random.randint(50, 80): two of its values
CapacityVals == {50, 60}
\* cpu_req is random.randint(1, 30): two of its values
CpuReqVals == {20, 30}
\* bandwidth is random.randint(50, 80): its least and its greatest value
BandwidthVals == {50, 80}

Nodes == 0 .. (NumNodes - 1)
\* link end points a topology file can name: one below and one above the range
RawIndex == (-1) .. NumNodes

(***************************************************************************)
(* Helpers for Python values.                                              *)
(***************************************************************************)
RECURSIVE SumSeq(_)
SumSeq(s) == IF s = <<>> THEN 0 ELSE Head(s) + SumSeq(Tail(s))

RECURSIVE Gcd(_, _)
Gcd(a, b) == IF b = 0 THEN a ELSE Gcd(b, a % b)

\* the float n / d (n >= 0, d > 0) as a reduced fraction
Fraction(n, d) == LET g == Gcd(n, d) IN <<n \div g, d \div g>>

\* 0.0
Zero == Fraction(0, 1)

\* list[i] is defined for -len <= i < len; a negative i counts from the end
PyIndexOK(i, len) == (0 - len) <= i /\ i < len
PyIndex(i, len) == IF i < 0 THEN i + len ELSE i

\* all sequences over S of length 0..n
RECURSIVE SeqsUpTo(_, _)
SeqsUpTo(S, n) ==
    IF n = 0 THEN {<<>>}
    ELSE LET shorter == SeqsUpTo(S, n - 1)
         IN shorter \cup {Append(s, x) : s \in {t \in shorter : Len(t) = n - 1}, x \in S}

SeqsOfLen(S, n) == {s \in SeqsUpTo(S, n) : Len(s) = n}

(***************************************************************************)
(* featureExtraction/node_feature_ext.py                                   *)
(***************************************************************************)
\* the identifier "node_<i>" of a physical node, as the file spells it
NodeId(i) == <<"node", i>>

\* int(link['source'].split('_')[1]): the integer after the first underscore
NodeIndex(id) == id[2]

NoError == "none"

\* defaultdict(list): every key starts with the empty list
EmptyAdjacency == [i \in RawIndex |-> <<>>]

\* build_adjacency_list with the reverse edge left out (a directed list)
RECURSIVE build_adjacency_list_directed(_)
build_adjacency_list_directed(links) ==
    IF links = <<>> THEN EmptyAdjacency
    ELSE LET n == Len(links)
             before == build_adjacency_list_directed(SubSeq(links, 1, n - 1))
             source == NodeIndex(links[n].source)
             target == NodeIndex(links[n].target)
         IN [before EXCEPT ![source] = Append(@, target)]

\* build_adjacency_list: for every link, in order, append target to source's
\* list and then source to target's list; no index is checked
RECURSIVE build_adjacency_list(_)
build_adjacency_list(links) ==
    IF links = <<>> THEN EmptyAdjacency
    ELSE LET n == Len(links)
             before == build_adjacency_list(SubSeq(links, 1, n - 1))
             source == NodeIndex(links[n].source)
             target == NodeIndex(links[n].target)
             one == [before EXCEPT ![source] = Append(@, target)]
         IN [one EXCEPT ![target] = Append(@, source)]

\* get_adjacent_link_bandwidth: adj_bandwidth[source] += bandwidth and
\* adj_bandwidth[target] += bandwidth for every link; indexing a list of
\* num_nodes entries raises IndexError outside -num_nodes .. num_nodes-1
\* and reaches the entry counted from the end for a negative index
RECURSIVE get_adjacent_link_bandwidth(_, _)
get_adjacent_link_bandwidth(num_nodes, links) ==
    IF links = <<>> THEN [err |-> NoError, value |-> [i \in 0 .. (num_nodes - 1) |-> 0]]
    ELSE LET n == Len(links)
             before == get_adjacent_link_bandwidth(num_nodes, SubSeq(links, 1, n - 1))
             source == NodeIndex(links[n].source)
             target == NodeIndex(links[n].target)
             bandwidth == links[n].bandwidth
         IN IF before.err # NoError THEN before
            ELSE IF ~PyIndexOK(source, num_nodes)
            THEN [before EXCEPT !.err = "IndexError"]
            ELSE LET one == [before.value EXCEPT ![PyIndex(source, num_nodes)] = @ + bandwidth]
                 IN IF ~PyIndexOK(target, num_nodes)
                    THEN [err |-> "IndexError", value |-> one]
                    ELSE [err |-> NoError,
                          value |-> [one EXCEPT ![PyIndex(target, num_nodes)] = @ + bandwidth]]

\* the inner for loop of the traversal (lines 107-111): every neighbor not
\* yet visited is marked, gets distance[current] + 1 and joins the queue
RECURSIVE VisitNeighbors(_, _, _, _)
VisitNeighbors(neighbors, current, num_nodes, st) ==
    IF neighbors = <<>> THEN st
    ELSE LET neighbor == Head(neighbors) IN
         IF ~PyIndexOK(neighbor, num_nodes) THEN [st EXCEPT !.err = "IndexError"]
         ELSE LET i == PyIndex(neighbor, num_nodes) IN
              IF ~st.visited[i]
              THEN VisitNeighbors(Tail(neighbors), current, num_nodes,
                      [st EXCEPT !.visited[i] = TRUE,
                                 !.distance[i] = st.distance[PyIndex(current, num_nodes)] + 1,
                                 !.queue = Append(@, neighbor)])
              ELSE VisitNeighbors(Tail(neighbors), current, num_nodes, st)

\* the while loop of the traversal (lines 105-111): popleft, then visit
RECURSIVE BfsLoop(_, _, _)
BfsLoop(adj, num_nodes, st) ==
    IF st.err # NoError \/ st.queue = <<>> THEN st
    ELSE LET current == Head(st.queue)
             popped == [st EXCEPT !.queue = Tail(@)]
         IN BfsLoop(adj, num_nodes, VisitNeighbors(adj[current], current, num_nodes, popped))

\* lines 99-111: the breadth-first traversal from node k
Bfs(k, adj, num_nodes) ==
    BfsLoop(adj, num_nodes,
            [err |-> NoError,
             queue |-> <<k>>,
             visited |-> [i \in 0 .. (num_nodes - 1) |-> i = k],
             distance |-> [i \in 0 .. (num_nodes - 1) |-> 0]])

\* line 113: [distance[mapped_node] for mapped_node in mapped_nodes if mapped_node != k]
RECURSIVE MappedDistances(_, _, _)
MappedDistances(dist, mapped, k) ==
    IF mapped = <<>> THEN <<>>
    ELSE IF Head(mapped) # k
         THEN <<dist[Head(mapped)]>> \o MappedDistances(dist, Tail(mapped), k)
         ELSE MappedDistances(dist, Tail(mapped), k)

\* lines 112-118: the average of the mapped distances, 0.0 when there are none
AvgDistance(dist, mapped, k) ==
    LET mapped_distances == MappedDistances(dist, mapped, k)
    IN IF mapped_distances # <<>>
       THEN Fraction(SumSeq(mapped_distances), Len(mapped_distances))
       ELSE Zero

\* get_distance_correlation: a traversal from every k, then the average
get_distance_correlation(num_nodes, adj, mapped) ==
    LET bfs == [k \in 0 .. (num_nodes - 1) |-> Bfs(k, adj, num_nodes)]
        failed == \E k \in 0 .. (num_nodes - 1) : bfs[k].err # NoError
    IN [err |-> IF failed THEN "IndexError" ELSE NoError,
        distance |-> [k \in 0 .. (num_nodes - 1) |-> bfs[k].distance],
        value |-> [k \in 0 .. (num_nodes - 1) |->
                     IF failed THEN Zero ELSE AvgDistance(bfs[k].distance, mapped, k)]]

\* get_node_computing_resources
get_node_computing_resources(nodes) == [k \in DOMAIN nodes |-> nodes[k].cpu_capacity]

\* distance = [0] * num_nodes, for every k
NoDistance(nodes) == [k \in DOMAIN nodes |-> [i \in DOMAIN nodes |-> 0]]

\* get_node_features_matrix: CPU, then adjacent bandwidth, then the adjacency
\* list and the distance correlation; the first exception ends the call
get_node_features_matrix(nodes, links, mapped) ==
    LET num_nodes == Cardinality(DOMAIN nodes)
        cpu_resources == get_node_computing_resources(nodes)
        adj_bandwidth == get_adjacent_link_bandwidth(num_nodes, links)
        adj == build_adjacency_list(links)
        distance_corr == get_distance_correlation(num_nodes, adj, mapped)
    IN IF adj_bandwidth.err # NoError
       THEN [err |-> adj_bandwidth.err, adjacency |-> EmptyAdjacency,
             distance |-> NoDistance(nodes), value |-> <<>>]
       ELSE IF distance_corr.err # NoError
       THEN [err |-> distance_corr.err, adjacency |-> adj,
             distance |-> distance_corr.distance, value |-> <<>>]
       ELSE [err |-> NoError, adjacency |-> adj, distance |-> distance_corr.distance,
             value |-> [k \in DOMAIN nodes |->
                          [cpu_resources |-> cpu_resources[k],
                           adjacent_bandwidth |-> adj_bandwidth.value[k],
                           distance_correlation |-> distance_corr.value[k]]]]

(***************************************************************************)
(* node_policy_net.py                                                      *)
(***************************************************************************)
\* PolicyNetwork.forward ends in a softmax over the nodes: one entry per
\* node, no entry negative, the entries sum to 1.0; an entry is exactly 0
\* when its exponential underflows
SoftmaxOutputs(n) == {p \in SeqsOfLen(0 .. One, n) : SumSeq(p) = One}

\* what a policy_net handed to map_virtual_node can return when nothing is
\* known about it: a list of the right length with negative entries and any
\* sum, or a list one shorter or one longer than the node list
ArbitraryOutputs(n) ==
    SeqsOfLen((-1) .. One, n)
        \cup {p \in SeqsOfLen(0 .. One, n - 1) : SumSeq(p) = One}
        \cup {p \in SeqsOfLen(0 .. One, n + 1) : SumSeq(p) = One}

\* policy_net(input_tensor)[0].tolist(), for n feature dictionaries
PolicyOutputs(net, n) ==
    IF net = "softmax" THEN SoftmaxOutputs(n) ELSE ArbitraryOutputs(n)

\* lines 93-98 with the capacity test left out: every node is kept
RECURSIVE FilterEligibleUnchecked(_, _, _, _, _)
FilterEligibleUnchecked(features, probs, cpu_req, idx, acc) ==
    IF idx >= Cardinality(DOMAIN features) \/ acc.err # NoError THEN acc
    ELSE IF idx >= Len(probs)
         THEN [acc EXCEPT !.err = "IndexError", !.nodes = Append(@, idx)]
         ELSE FilterEligibleUnchecked(features, probs, cpu_req, idx + 1,
                 [acc EXCEPT !.nodes = Append(@, idx),
                             !.probs = Append(@, probs[idx + 1])])

\* lines 93-98: for idx, feature in enumerate(node_features), keep idx and
\* probabilities[idx] when feature['CPU Resources'] >= the requirement;
\* probabilities[idx] raises IndexError when the list is too short
RECURSIVE FilterEligible(_, _, _, _, _)
FilterEligible(features, probs, cpu_req, idx, acc) ==
    IF idx >= Cardinality(DOMAIN features) \/ acc.err # NoError THEN acc
    ELSE IF features[idx].cpu_resources >= cpu_req
         THEN IF idx >= Len(probs)
              THEN [acc EXCEPT !.err = "IndexError", !.nodes = Append(@, idx)]
              ELSE FilterEligible(features, probs, cpu_req, idx + 1,
                      [acc EXCEPT !.nodes = Append(@, idx),
                                  !.probs = Append(@, probs[idx + 1])])
         ELSE FilterEligible(features, probs, cpu_req, idx + 1, acc)

\* the prefix sums of a list (itertools.accumulate)
RECURSIVE Accumulate(_)
Accumulate(s) ==
    IF s = <<>> THEN <<>>
    ELSE LET n == Len(s)
             before == Accumulate(SubSeq(s, 1, n - 1))
         IN Append(before, (IF n = 1 THEN 0 ELSE before[n - 1]) + s[n])

\* bisect.bisect_right(a, x, lo, hi); a[mid] is the sequence entry mid + 1
RECURSIVE Bisect(_, _, _, _)
Bisect(a, x, lo, hi) ==
    IF lo < hi
    THEN LET mid == (lo + hi) \div 2
         IN IF x < a[mid + 1] THEN Bisect(a, x, lo, mid) ELSE Bisect(a, x, mid + 1, hi)
    ELSE lo

\* lines 104-108: normalized_probs = [prob / total_prob ...] and
\* random.choices(eligible_nodes, weights=normalized_probs, k=1)[0], which is
\* population[bisect(cum_weights, random() * total, 0, n - 1)].  With
\* T = total_prob # 0 and P the prefix sums of eligible_probs, cum_weights[j]
\* is P[j] / T and total is 1.0, so for a draw x in [0, 1) the test
\* x < cum_weights[j] is x * |T| < sign(T) * P[j].  The draw x * |T| is taken
\* at every half unit of [0, |T|): x2 = 2 * x * |T|, compared with
\* 2 * sign(T) * P[j].
Choice(nodes, probs, x2) ==
    LET total_prob == SumSeq(probs)
        sign == IF total_prob > 0 THEN 1 ELSE -1
        cum == Accumulate(probs)
        cum_weights == [j \in DOMAIN cum |-> 2 * sign * cum[j]]
    IN nodes[Bisect(cum_weights, x2, 0, Len(nodes) - 1) + 1]

\* the draws random() can make, as half units of |total_prob|
Draws(probs) ==
    LET total_prob == SumSeq(probs)
    IN 0 .. (2 * (IF total_prob > 0 THEN total_prob ELSE 0 - total_prob) - 1)

\* the indices random.choices can return, over every draw of random()
Choices(nodes, probs) == {Choice(nodes, probs, x2) : x2 \in Draws(probs)}

\* map_virtual_node up to the selection: the exception it raises, if any,
\* and its locals
map_virtual_node(features, probs, cpu_req) ==
    LET f == FilterEligible(features, probs, cpu_req, 0,
                            [err |-> NoError, nodes |-> <<>>, probs |-> <<>>])
    IN IF f.err # NoError THEN f
       ELSE IF f.nodes = <<>> THEN [f EXCEPT !.err = "ValueError"]
       ELSE IF SumSeq(f.probs) = 0 THEN [f EXCEPT !.err = "ZeroDivisionError"]
       ELSE f

(***************************************************************************)
(* main.py                                                                 *)
(***************************************************************************)
\* the name "Virtual_Node_<i>" of the i-th virtual node of a request
VirtualNodeName(i) == <<"Virtual_Node", i>>

Range(s) == {s[i] : i \in DOMAIN s}

\* line 84 left out: the feature dictionaries keep the capacity they had
UpdateCpuResourcesStale(features, idx, capacity) == features

\* line 84: node_features[idx]['CPU Resources'] = the node's new capacity
UpdateCpuResources(features, idx, capacity) ==
    [features EXCEPT ![idx].cpu_resources = capacity]

\* lines 79-81 with the comparison of the clamp turned around
DeductCapacityInverted(capacity, amount) ==
    IF capacity - amount > 0 THEN 0 ELSE capacity - amount

\* lines 79-81: capacity -= amount; if capacity < 0: capacity = 0
DeductCapacity(capacity, amount) ==
    IF capacity - amount < 0 THEN 0 ELSE capacity - amount

\* an except clause that catches nothing
CaughtNever(e) == FALSE

\* line 89: except ValueError
Caught(e) == e = "ValueError"

\* lines 71-74 with the new mapping put in front of the list
RecordMappingInFront(results, name, id) ==
    <<[virtual_node |-> name, mapped_physical_node |-> id]>> \o results

\* lines 71-74: mapping_results.append({...})
RecordMapping(results, name, id) ==
    Append(results, [virtual_node |-> name, mapped_physical_node |-> id])

\* lines 98-100: set(all_virtual_nodes) - set(mapped_virtual_nodes)
UnmappedVirtualNodes(virtual_nodes, results) ==
    {virtual_nodes[i].node : i \in DOMAIN virtual_nodes}
        \ {results[i].virtual_node : i \in DOMAIN results}

Capacities(nodes) == [k \in DOMAIN nodes |-> nodes[k].cpu_capacity]

\* line 48: node_features = extractor.get_node_features_matrix(...)
ExtractNodeFeatures ==
    /\ pc = "start"
    /\ LET m == get_node_features_matrix(physical_nodes, physical_links, mapped_nodes)
       IN /\ adjacency' = m.adjacency
          /\ distance' = m.distance
          /\ exc' = m.err
          /\ IF m.err = NoError
             THEN node_features' = m.value /\ pc' = "map"
             ELSE node_features' = node_features /\ pc' = "crashed"
    /\ UNCHANGED <<physical_nodes, physical_links, request, policy, mapped_nodes,
                   mapping_results, failed_log, unmapped_virtual_nodes, vidx,
                   probabilities, eligible_nodes, eligible_probs,
                   selected_node_idx, prev_capacity, initial_capacity>>

\* lines 58-90: one iteration of the loop over the virtual nodes
MapVirtualNode ==
    /\ pc = "map"
    /\ vidx <= Len(request)
    /\ \E probs \in PolicyOutputs(policy, Cardinality(DOMAIN node_features)) :
       \E m \in {map_virtual_node(node_features, probs, request[vidx].cpu_req)} :
         /\ probabilities' = probs
         /\ eligible_nodes' = m.nodes
         /\ eligible_probs' = m.probs
         /\ exc' = m.err
         /\ prev_capacity' = Capacities(physical_nodes)
         /\ IF m.err = NoError
            THEN \E idx \in Choices(m.nodes, m.probs) :
                 \E capacity \in {DeductCapacity(physical_nodes[idx].cpu_capacity,
                                                 request[vidx].cpu_req)} :
                   /\ selected_node_idx' = idx
                   /\ mapping_results' =
                        RecordMapping(mapping_results, request[vidx].node,
                                      physical_nodes[idx].id)
                   /\ physical_nodes' =
                        [physical_nodes EXCEPT ![idx].cpu_capacity = capacity]
                   /\ node_features' = UpdateCpuResources(node_features, idx, capacity)
                   /\ mapped_nodes' = Append(mapped_nodes, idx)
                   /\ vidx' = vidx + 1
                   /\ UNCHANGED <<pc, failed_log>>
            ELSE /\ selected_node_idx' = -1
                 /\ UNCHANGED <<mapping_results, physical_nodes, node_features,
                                mapped_nodes>>
                 /\ IF Caught(m.err)
                    THEN /\ failed_log' = Append(failed_log, request[vidx].node)
                         /\ vidx' = vidx + 1
                         /\ pc' = pc
                    ELSE /\ pc' = "crashed"
                         /\ UNCHANGED <<failed_log, vidx>>
    /\ UNCHANGED <<physical_links, request, policy, unmapped_virtual_nodes,
                   initial_capacity, adjacency, distance>>

\* lines 92-106: the loop is over; the final results are displayed
DisplayResults ==
    /\ pc = "map"
    /\ vidx > Len(request)
    /\ unmapped_virtual_nodes' = UnmappedVirtualNodes(request, mapping_results)
    /\ pc' = "done"
    /\ UNCHANGED <<physical_nodes, physical_links, request, policy, node_features,
                   mapped_nodes, mapping_results, failed_log, vidx, exc,
                   probabilities, eligible_nodes, eligible_probs,
                   selected_node_idx, prev_capacity, initial_capacity, adjacency,
                   distance>>

(***************************************************************************)
(* Inputs.                                                                 *)
(***************************************************************************)
\* generate_physical_network(n, ...) for n = 1 .. MaxSessionNodes: the nodes
\* node_0 .. node_<n-1>, each with a capacity of its own
PhysicalNodeLists ==
    UNION {{[k \in 0 .. (n - 1) |-> [id |-> NodeId(k), cpu_capacity |-> caps[k]]] :
              caps \in [0 .. (n - 1) -> CapacityVals]} : n \in 1 .. MaxSessionNodes}

\* NumNodes nodes, every one with the least capacity
UniformNodes == [k \in Nodes |-> [id |-> NodeId(k), cpu_capacity |-> 50]]

Link(s, t, b) == [source |-> NodeId(s), target |-> NodeId(t), bandwidth |-> b]

\* for n nodes: the links i -- i+1 of the path 0 -- 1 -- ... -- n-1, or a
\* tail of that list
PathLinkLists(n) ==
    LET path == [i \in 1 .. (n - 1) |-> Link(i - 1, i, 50)]
    IN {SubSeq(path, i, n - 1) : i \in 1 .. n}

\* links between two different existing nodes
WellFormedLinks == {Link(s, t, 50) : s, t \in Nodes} \ {Link(s, s, 50) : s \in Nodes}

\* links whose end points may lie outside 0 .. N-1
AnyLinks ==
    {Link(s, t, b) : s, t \in RawIndex, b \in BandwidthVals}
        \ {Link(s, s, b) : s \in RawIndex, b \in BandwidthVals}

\* generate_vnrs: random.randint(2, 10) virtual nodes Virtual_Node_1,
\* Virtual_Node_2, ..., each with a cpu_req of its own
Requests ==
    UNION {{[i \in 1 .. n |-> [node |-> VirtualNodeName(i), cpu_req |-> r[i]]] :
              r \in [1 .. n -> CpuReqVals]} : n \in 2 .. MaxVirtualNodes}

InitCommon ==
    /\ node_features = <<>>
    /\ mapping_results = <<>>
    /\ failed_log = <<>>
    /\ unmapped_virtual_nodes = {}
    /\ vidx = 1
    /\ pc = "start"
    /\ exc = NoError
    /\ probabilities = <<>>
    /\ eligible_nodes = <<>>
    /\ eligible_probs = <<>>
    /\ selected_node_idx = -1
    /\ prev_capacity = Capacities(physical_nodes)
    /\ initial_capacity = Capacities(physical_nodes)
    /\ adjacency = EmptyAdjacency
    /\ distance = NoDistance(physical_nodes)

\* main(): a well-formed substrate, a request, the softmax policy network
Init ==
    /\ physical_nodes \in PhysicalNodeLists
    /\ physical_links \in PathLinkLists(Cardinality(DOMAIN physical_nodes))
    /\ request \in Requests
    /\ policy = "softmax"
    /\ mapped_nodes = <<>>
    /\ InitCommon

Next == ExtractNodeFeatures \/ MapVirtualNode \/ DisplayResults

Spec == Init /\ [][Next]_vars

\* the same session with a policy about which nothing is known
InitPluggable ==
    /\ physical_nodes \in PhysicalNodeLists
    /\ physical_links \in PathLinkLists(Cardinality(DOMAIN physical_nodes))
    /\ request \in Requests
    /\ policy = "arbitrary"
    /\ mapped_nodes = <<>>
    /\ InitCommon

SpecPluggable == InitPluggable /\ [][Next]_vars

\* get_node_features_matrix on its own: any well-formed link list, any
\* list of mapped nodes
InitFeat ==
    /\ physical_nodes = UniformNodes
    /\ physical_links \in SeqsUpTo(WellFormedLinks, MaxLinks)
    /\ request = <<>>
    /\ policy = "softmax"
    /\ mapped_nodes \in SeqsUpTo(Nodes, MaxMapped)
    /\ InitCommon

NextFeat == ExtractNodeFeatures

SpecFeat == InitFeat /\ [][NextFeat]_vars

\* the traversal on its own: any well-formed link list, nothing mapped
InitGraph ==
    /\ physical_nodes = UniformNodes
    /\ physical_links \in SeqsUpTo(WellFormedLinks, MaxLinks)
    /\ request = <<>>
    /\ policy = "softmax"
    /\ mapped_nodes = <<>>
    /\ InitCommon

SpecGraph == InitGraph /\ [][NextFeat]_vars

\* loading a topology whose links may name nodes that do not exist
InitLoad ==
    /\ physical_nodes = UniformNodes
    /\ physical_links \in SeqsUpTo(AnyLinks, MaxLinks)
    /\ request = <<>>
    /\ policy = "softmax"
    /\ mapped_nodes = <<>>
    /\ InitCommon

SpecLoad == InitLoad /\ [][NextFeat]_vars

(***************************************************************************)
(* Reference definitions on the substrate graph, from the link list alone. *)
(***************************************************************************)
\* S and every existing node one link away from a node of S
LinkedTo(S) ==
    S \cup {t \in DOMAIN physical_nodes : \E i \in DOMAIN physical_links :
              LET a == NodeIndex(physical_links[i].source)
                  b == NodeIndex(physical_links[i].target)
              IN (a \in S /\ b = t) \/ (b \in S /\ a = t)}

\* the nodes at most n links away from k
RECURSIVE Within(_, _)
Within(k, n) == IF n = 0 THEN {k} ELSE LinkedTo(Within(k, n - 1))

Reachable(k, v) == v \in Within(k, Cardinality(DOMAIN physical_nodes))

\* the least number of links on a path from k to v (v reachable from k)
MinHops(k, v) ==
    CHOOSE n \in 0 .. Cardinality(DOMAIN physical_nodes) :
        v \in Within(k, n) /\ \A m \in 0 .. (n - 1) : v \notin Within(k, m)

\* the hop distances from k to the mapped nodes other than k that k reaches
RECURSIVE ReachableMappedHops(_, _)
ReachableMappedHops(k, mapped) ==
    IF mapped = <<>> THEN <<>>
    ELSE IF Head(mapped) # k /\ Reachable(k, Head(mapped))
         THEN <<MinHops(k, Head(mapped))>> \o ReachableMappedHops(k, Tail(mapped))
         ELSE ReachableMappedHops(k, Tail(mapped))

\* the average hop distance from k to the mapped nodes it reaches
AverageHops(k, mapped) ==
    LET hops == ReachableMappedHops(k, mapped)
    IN IF hops = <<>> THEN Zero ELSE Fraction(SumSeq(hops), Len(hops))

\* a link names a node index outside 0 .. N-1
Malformed(links) ==
    \E i \in DOMAIN links :
        \/ NodeIndex(links[i].source) \notin DOMAIN physical_nodes
        \/ NodeIndex(links[i].target) \notin DOMAIN physical_nodes

\* map_virtual_node has been called at least once
Called == vidx > 1 \/ (pc = "crashed" /\ node_features # <<>>)

\* the virtual node the last call of map_virtual_node was made for
LastVirtualNode == IF pc = "crashed" THEN request[vidx] ELSE request[vidx - 1]

\* the score vector breaks the contract: wrong length, a negative entry, or
\* a sum that is not 1.0
ViolatesContract(p) ==
    \/ Len(p) # Cardinality(DOMAIN physical_nodes)
    \/ \E i \in DOMAIN p : p[i] < 0
    \/ SumSeq(p) # One

NamesOf(results) == [i \in DOMAIN results |-> results[i].virtual_node]

\* the position of a virtual node's name in the request
PositionOf(name) == CHOOSE i \in DOMAIN request : request[i].node = name

(***************************************************************************)
(* Claims.                                                                 *)
(***************************************************************************)
\* C1: whenever the engine has just mapped a virtual node, the physical node
\* it selected had, when the call started, a cpu_capacity >= that virtual
\* node's cpu_req, whatever was committed before.
C1_SelectedHasCapacity ==
    selected_node_idx # -1 =>
        prev_capacity[selected_node_idx] >= request[vidx - 1].cpu_req

\* C1 witness: the second mapping of a session, made while the node chosen
\* first no longer has the capacity the second virtual node asks for.
C1_Witness ==
    /\ selected_node_idx # -1
    /\ Len(mapped_nodes) = 2
    /\ prev_capacity[mapped_nodes[1]] < request[vidx - 1].cpu_req
    /\ selected_node_idx # mapped_nodes[1]

\* C2: every cpu_capacity is >= 0 in every state, the node selected by the
\* last step holds max(0, capacity - cpu_req) and every other node holds the
\* capacity it had before that step.
C2_CapacityNonNegative ==
    \A k \in DOMAIN physical_nodes :
        /\ physical_nodes[k].cpu_capacity >= 0
        /\ physical_nodes[k].cpu_capacity =
             IF k = selected_node_idx
             THEN LET rest == prev_capacity[k] - request[vidx - 1].cpu_req
                  IN IF rest > 0 THEN rest ELSE 0
             ELSE prev_capacity[k]

\* C2 witness: a commit that used up a node's capacity exactly.
C2_Witness ==
    /\ selected_node_idx # -1
    /\ prev_capacity[selected_node_idx] > 0
    /\ physical_nodes[selected_node_idx].cpu_capacity = 0

\* C3: when every physical node's capacity is below the cpu_req of the
\* virtual node being processed, the call fails with the caught ValueError,
\* the session does not abort but moves on to the next virtual node, no
\* mapping is ever recorded for a virtual node that failed this way, and the
\* final result is produced only after every virtual node was processed and
\* lists each of them as unmapped.
C3_ExhaustionIsNotFatal ==
    /\ (Called /\ \A k \in DOMAIN prev_capacity :
                     prev_capacity[k] < LastVirtualNode.cpu_req)
          => /\ pc # "crashed"
             /\ exc = "ValueError"
             /\ failed_log # <<>>
             /\ failed_log[Len(failed_log)] = request[vidx - 1].node
    /\ \A n \in Range(failed_log) : n \notin Range(NamesOf(mapping_results))
    /\ pc = "done" => /\ vidx = Len(request) + 1
                      /\ Range(failed_log) \subseteq unmapped_virtual_nodes

\* C3 witness: a finished session in which a virtual node found no node
\* with enough capacity and a later virtual node was mapped.
C3_Witness ==
    /\ pc = "done"
    /\ \E i, j \in DOMAIN request :
         /\ i < j
         /\ request[i].node \in Range(failed_log)
         /\ request[i].node \in unmapped_virtual_nodes
         /\ request[j].node \in Range(NamesOf(mapping_results))

\* C4: whenever a virtual node is about to be scored, the Distance
\* Correlation of every physical node k in the features handed to the policy
\* is the average hop distance from k to the nodes mapped so far.
C4_DistanceCorrelationCurrent ==
    (pc = "map" /\ vidx <= Len(request)) =>
        \A k \in DOMAIN physical_nodes :
            node_features[k].distance_correlation = AverageHops(k, mapped_nodes)

\* C5: in a completed session the committed mappings follow the order of
\* the request, and every virtual node is either mapped exactly once and not
\* in the unmapped set, or not mapped and in the unmapped set.
C5_ResultAccountsForAll ==
    pc = "done" =>
        /\ \A a, b \in DOMAIN mapping_results :
             a < b => PositionOf(mapping_results[a].virtual_node)
                        < PositionOf(mapping_results[b].virtual_node)
        /\ \A i \in DOMAIN request :
             LET n == Cardinality({a \in DOMAIN mapping_results :
                                     mapping_results[a].virtual_node = request[i].node})
             IN \/ n = 1 /\ request[i].node \notin unmapped_virtual_nodes
                \/ n = 0 /\ request[i].node \in unmapped_virtual_nodes

\* C5 witness: a completed session with two committed mappings.
C5_Witness ==
    /\ pc = "done"
    /\ Len(mapping_results) = 2
    /\ unmapped_virtual_nodes = {}

\* C6: once the policy has returned a vector that breaks its contract, the
\* session is aborted with InvalidScoreVector and no node was selected.
C6_InvalidScoreVectorIsFatal ==
    (Called /\ ViolatesContract(probabilities)) =>
        /\ pc = "crashed"
        /\ exc = "InvalidScoreVector"
        /\ selected_node_idx = -1

\* C7: when the last call found eligible nodes and every one of them had
\* score 0, it did not fail and it selected one of the eligible nodes.
C7_UniformFallback ==
    (Called /\ eligible_nodes # <<>> /\ \A i \in DOMAIN eligible_probs : eligible_probs[i] = 0)
        => /\ pc # "crashed"
           /\ selected_node_idx \in Range(eligible_nodes)

\* C8: the feature extraction never raises on a well-formed substrate, and
\* the Distance Correlation of k averages the hop distances to the mapped
\* nodes k can reach only: an unreachable mapped node adds neither a
\* distance nor to the divisor.
C8_UnreachableExcluded ==
    pc # "start" =>
        /\ pc = "map"
        /\ \A k \in DOMAIN physical_nodes :
             node_features[k].distance_correlation = AverageHops(k, mapped_nodes)

\* C9: a link list that names a node index outside 0 .. N-1 is rejected:
\* building the features from it fails.  (Any exception is counted here as
\* the failure the claim asks for.)
C9_MalformedTopologyRejected ==
    (pc # "start" /\ Malformed(physical_links)) => pc = "crashed"

\* C10: the traversal from k gives k the distance 0 and every node reachable
\* from k the least number of links on a path from k.
C10_BfsShortest ==
    pc = "map" =>
        \A k \in DOMAIN physical_nodes :
            /\ distance[k][k] = 0
            /\ \A v \in DOMAIN physical_nodes : Reachable(k, v) => distance[k][v] = MinHops(k, v)

\* C10 witness: a node two links away although the third link closes no
\* shorter way.
C10_Witness ==
    /\ pc = "map"
    /\ Len(physical_links) = MaxLinks
    /\ \E k, v \in DOMAIN physical_nodes : Reachable(k, v) /\ MinHops(k, v) = 2 /\ distance[k][v] = 2

\* the cpu_req of the virtual nodes the committed mappings place on node k
RECURSIVE MappedCpuReq(_, _)
MappedCpuReq(results, k) ==
    IF results = <<>> THEN 0
    ELSE (IF Head(results).mapped_physical_node = NodeId(k)
          THEN request[PositionOf(Head(results).virtual_node)].cpu_req
          ELSE 0) + MappedCpuReq(Tail(results), k)

\* C11: in every state of a session, for every physical node, the capacity
\* it was loaded with minus its current capacity is the sum of the cpu_req
\* of the virtual nodes mapped to it so far: no deduction is ever clamped,
\* and a virtual node that is not mapped changes no capacity.
C11_CapacityConserved ==
    \A k \in DOMAIN physical_nodes :
        initial_capacity[k] - physical_nodes[k].cpu_capacity
            = MappedCpuReq(mapping_results, k)

\* C11 witness: two virtual nodes committed to the same physical node,
\* which has lost the sum of their cpu_req.
C11_Witness ==
    /\ Len(mapped_nodes) = 2
    /\ mapped_nodes[1] = mapped_nodes[2]
    /\ physical_nodes[mapped_nodes[1]].cpu_capacity
         = initial_capacity[mapped_nodes[1]] - request[1].cpu_req - request[2].cpu_req
====
